---- MODULE Spec2Model ----
(***************************************************************************)
(* zeno-atom: createAtom(args) -> [AtomProvider, useAtom].                 *)
(*                                                                         *)
(* The model follows src/src/index.tsx.  JavaScript objects live in a heap *)
(* (address -> object) so that sharing of one state object between scopes  *)
(* and between renders is visible.  Every render of AtomProvider builds a  *)
(* fresh Proxy that closes over that render's `state` and `atom`; the      *)
(* useState cell of a provider instance is `hook`.                         *)
(***************************************************************************)
EXTENDS Integers, Sequences, FiniteSets, TLC

VARIABLES
    variant,    \* typeof args: "object" (Variant 1) or "function" (Variant 2)
    malformed,  \* the definition's tables also hold entries that are no functions
    heap,       \* address -> JavaScript object
    mounted,    \* per provider instance: has it rendered for the first time
    hook,       \* per provider instance: the useState cell (address of the state)
    render,     \* per provider instance: the closure of its latest render
    view,       \* per consumer: the value useAtom() returned to it
    last        \* the operation performed by the latest step (history)

vars == <<variant, malformed, heap, mounted, hook, render, view, last>>

----------------------------------------------------------------------------
(* Bounds of the exploration *)

MaxCounter == 8

Scopes == {1, 2}       \* two mounted instances of the same AtomProvider
Consumers == {1}       \* a component (or a closure it retains) that calls useAtom
Outside == 0           \* a consumer position with no enclosing AtomProvider

----------------------------------------------------------------------------
(* The Atom Definition used to exercise the code *)

\* README example: state { counter: 0 }, extended by the fields the commented
\* example of index.tsx uses (firstName, lastName), a base for `sum`, and a
\* nested object.
DefCounter == 0

InitialContent(start) ==
    [counter |-> start, first |-> "A", last |-> "B", base |-> 10, tag |-> 0]

\* "both" is declared as a callback and as an updater; a callback is also
\* declared under the name "state".
\* setTag writes nested state; preset and bump return a value.
WriteNames == {"setTag", "preset", "bump"}
UpdaterNames == {"increment", "reset", "rename", "failing", "both"} \cup WriteNames
CallbackNames == {"log", "both", "state"}
SelectorNames == {"fullName", "sum"}
\* Properties every plain object inherits from Object.prototype.
PrototypeNames == {"toString"}
\* Property keys that are not strings.
SymbolNames == {"Symbol.iterator"}
\* Entries of a malformed definition: callbacks: { version: 2 },
\* updaters: { broken: "text" }.
NumberCallbacks == {"version"}
StringUpdaters == {"broken"}
PropNames == {"state", "missing"} \cup UpdaterNames \cup CallbackNames
                 \cup PrototypeNames
StateFields == {"counter", "first", "last", "base"}

\* Arguments a caller passes to a mutation trigger.
Amounts == {3, 5}
ParamsOf(name) ==
    CASE name = "increment" -> {<<n>> : n \in Amounts}
      [] name = "failing"   -> {<<3>>}
      [] name = "reset"     -> {<< >>}
      [] name = "rename"    -> {<<"C", "D">>}
      [] name = "setTag"    -> {<<1>>}
      [] name = "bump"      -> {<<3>>}
      [] OTHER              -> {<< >>}

\* The updater bodies, run on a draft d.  `threw` tells whether the body raised;
\* the draft is returned as the body left it.
\*   increment(s, n) { s.counter += n }
\*   reset(s)        { s.counter = 0 }
\*   rename(s, a, b) { s.first = a; s.last = b }
\*   failing(s, n)   { s.counter += n; s.first = "X"; throw Error() }
\*   both(s)         { s.counter = 1 }
\*   setTag(s, t)    { s.meta.tag = t }
\*   preset: s => ({ counter: 7, first: "A", last: "B", base: 10, meta: { tag: 0 } })
\*   bump: (s, n) => s.counter += n
update(name, d, params) ==
    CASE name = "increment" ->
           [draft |-> [d EXCEPT !.counter = @ + params[1]], threw |-> FALSE]
      [] name = "reset" ->
           [draft |-> [d EXCEPT !.counter = 0], threw |-> FALSE]
      [] name = "rename" ->
           [draft |-> [d EXCEPT !.first = params[1], !.last = params[2]],
            threw |-> FALSE]
      [] name = "failing" ->
           [draft |-> [d EXCEPT !.counter = @ + params[1], !.first = "X"],
            threw |-> TRUE]
      [] name = "both" ->
           [draft |-> [d EXCEPT !.counter = 1], threw |-> FALSE]
      [] name = "setTag" ->
           [draft |-> [d EXCEPT !.tag = params[1]], threw |-> FALSE]
      [] name = "preset" ->
           [draft |-> d, threw |-> FALSE]
      [] name = "bump" ->
           [draft |-> [d EXCEPT !.counter = @ + params[1]], threw |-> FALSE]
      [] name \in StringUpdaters ->     \* "text"(draft): TypeError, not a function
           [draft |-> d, threw |-> TRUE]

\* What the updater body returns: a block body returns undefined, an arrow
\* with an expression body returns the expression's value.
returns(name, d, params) ==
    CASE name = "preset" -> [type |-> "object", content |-> InitialContent(7)]
      [] name = "bump"   -> [type |-> "number", num |-> d.counter + params[1]]
      [] OTHER           -> [type |-> "undefined"]

\* The paths of the state the updater body assigns to.
writes(name) ==
    CASE name \in {"increment", "reset", "both", "bump"} -> {"counter"}
      [] name = "rename"  -> {"first", "last"}
      [] name = "failing" -> {"counter", "first"}
      [] name = "setTag"  -> {"tag"}
      [] OTHER            -> {}

\* selectors: fullName(s) = s.first + " " + s.last ; sum(s, ...nums) = s.base + sum(nums)
RECURSIVE SumSeq(_)
SumSeq(q) == IF q = << >> THEN 0 ELSE Head(q) + SumSeq(Tail(q))

selector(name, d, extra) ==
    CASE name = "fullName" -> d.first \o " " \o d.last
      [] name = "sum"      -> d.base + SumSeq(extra)

\* Props handed to <AtomProvider ...>: the scope-construction input `start`,
\* the children, and optionally an initial state meant to replace the
\* definition's (README: "You can optionally pass a different initial state
\* object to the provider").
ProviderProps ==
    { [start |-> 0, children |-> "tree"],
      [start |-> 3, children |-> "tree", initialState |-> InitialContent(7)] }

----------------------------------------------------------------------------
(* The heap *)

\* An unused address (the live objects occupy 1..n, see Commit).
NewAddr(h) == Cardinality(DOMAIN h) + 1

\* A state object { counter, first, last, base, meta: { tag } } read as one record.
Content(h, a) ==
    [counter |-> h[a].counter, first |-> h[a].first, last |-> h[a].last,
     base |-> h[a].base, tag |-> h[h[a].meta].tag]

\* Allocation of a state object literal; returns the heap and the root address.
NewState(h, c) ==
    LET r == NewAddr(h)
        m == r + 1
    IN [heap |-> h @@ (r :> [counter |-> c.counter, first |-> c.first,
                              last |-> c.last, base |-> c.base, meta |-> m])
                   @@ (m :> [tag |-> c.tag]),
        addr |-> r]

\* The static definition's state object (Variant 1), created once when the
\* module loads; a definition function (Variant 2) has no such object.
DefHeap == NewState(<< >>, InitialContent(DefCounter))

\* Garbage collection.  Objects that no closure and no useState cell can
\* reach are dropped, and the live ones are moved to the addresses 1..n in the
\* order in which the roots reach them.  A program cannot observe either.
ScopeSeq == <<1, 2>>
ConsumerSeq == <<1>>

RootSeq(hk, rn, vw) ==
    SelectSeq(<<IF variant = "object" THEN DefHeap.addr ELSE 0>>
                \o [i \in 1..Len(ScopeSeq) |-> hk[ScopeSeq[i]]]
                \o [i \in 1..Len(ScopeSeq) |->
                       IF rn[ScopeSeq[i]].scope # 0 THEN rn[ScopeSeq[i]].state ELSE 0]
                \o [i \in 1..Len(ConsumerSeq) |->
                       IF vw[ConsumerSeq[i]].kind = "proxy"
                       THEN vw[ConsumerSeq[i]].state ELSE 0],
              LAMBDA a : a # 0)

RECURSIVE FirstOccurrences(_, _)
FirstOccurrences(seq, acc) ==
    IF seq = << >> THEN acc
    ELSE IF \E i \in DOMAIN acc : acc[i] = Head(seq)
         THEN FirstOccurrences(Tail(seq), acc)
         ELSE FirstOccurrences(Tail(seq), Append(acc, Head(seq)))

\* Each root followed by the nested object it holds.
Cells(h, roots) ==
    [i \in 1..(2 * Len(roots)) |->
        IF i % 2 = 1 THEN roots[(i + 1) \div 2] ELSE h[roots[i \div 2]].meta]

\* The new address of each live object: its position in `order`.
Rank(order) ==
    [a \in {order[i] : i \in DOMAIN order} |->
        CHOOSE i \in DOMAIN order : order[i] = a]

\* The step's result h, hk, rn, vw becomes the next state, the live objects
\* at their new addresses.
Commit(h, hk, rn, vw) ==
    \E order \in {FirstOccurrences(Cells(h, RootSeq(hk, rn, vw)), << >>)} :
    \E rank \in {Rank(order)} :
       /\ heap' = [k \in DOMAIN order |->
                     IF "meta" \in DOMAIN h[order[k]]
                     THEN [h[order[k]] EXCEPT !.meta = rank[@]]
                     ELSE h[order[k]]]
       /\ hook' = [s \in Scopes |-> IF hk[s] = 0 THEN 0 ELSE rank[hk[s]]]
       /\ render' = [s \in Scopes |->
                       IF rn[s].scope # 0 THEN [rn[s] EXCEPT !.state = rank[@]]
                       ELSE rn[s]]
       /\ view' = [c \in Consumers |->
                     IF vw[c].kind = "proxy" THEN [vw[c] EXCEPT !.state = rank[@]]
                     ELSE vw[c]]

----------------------------------------------------------------------------
(* createAtom and AtomProvider *)

Undefined == [type |-> "undefined"]
NoRender == [scope |-> 0]
NoView == [kind |-> "none"]
Null == [kind |-> "null"]

\* line 145: const createAtom = typeof args == 'object' ? () => args : args
\* Variant 1 returns the one bundle; Variant 2 runs the definition function,
\* which builds a bundle with a fresh state object { counter: props.start, ... };
\* `called` tells whether the definition function ran.
createAtom(h, atomProps) ==
    IF variant = "object"
    THEN [heap |-> h, atom |-> [state |-> DefHeap.addr], called |-> FALSE]
    ELSE LET s == NewState(h, InitialContent(atomProps.start))
         IN [heap |-> s.heap, atom |-> [state |-> s.addr], called |-> TRUE]

\* lines 163-164: const { children, ...restProps } = providerProps
restProps(providerProps) ==
    [k \in DOMAIN providerProps \ {"children"} |-> providerProps[k]]

Init ==
    /\ malformed = FALSE
    /\ variant \in {"object", "function"}
    /\ heap = IF variant = "object" THEN DefHeap.heap ELSE << >>
    /\ mounted = [s \in Scopes |-> FALSE]
    /\ hook = [s \in Scopes |-> 0]
    /\ render = [s \in Scopes |-> NoRender]
    /\ view = [c \in Consumers |-> NoView]
    /\ last = [op |-> "init"]

\* A provider that takes the state of the bundle it has just built on every
\* render, not on the first one only.
AtomProviderReinit(s, providerProps) ==
    /\ \E made \in {createAtom(heap, restProps(providerProps))} :
       LET atomProps == restProps(providerProps)
           state == made.atom.state
       IN /\ Commit(made.heap, [hook EXCEPT ![s] = state],
                    [render EXCEPT ![s] = [scope |-> s, state |-> state]], view)
          /\ last' = [op |-> IF mounted[s] THEN "rerender" ELSE "mount",
                      scope |-> s, providerProps |-> providerProps,
                      atomProps |-> atomProps,
                      definitionCalled |-> made.called,
                      state |-> Content(made.heap, state),
                      bundleState |-> Content(made.heap, made.atom.state)]
    /\ mounted' = [mounted EXCEPT ![s] = TRUE]
    /\ UNCHANGED <<variant, malformed>>

\* A provider whose Proxy closes over the bundle's state instead of the
\* useState cell's.
AtomProviderBundleState(s, providerProps) ==
    /\ \E made \in {createAtom(heap, restProps(providerProps))} :
       LET atomProps == restProps(providerProps)
           state == IF mounted[s] THEN hook[s] ELSE made.atom.state
       IN /\ Commit(made.heap, [hook EXCEPT ![s] = state],
                    [render EXCEPT ![s] = [scope |-> s, state |-> made.atom.state]],
                    view)
          /\ last' = [op |-> IF mounted[s] THEN "rerender" ELSE "mount",
                      scope |-> s, providerProps |-> providerProps,
                      atomProps |-> atomProps,
                      definitionCalled |-> made.called,
                      state |-> Content(made.heap, state),
                      bundleState |-> Content(made.heap, made.atom.state)]
    /\ mounted' = [mounted EXCEPT ![s] = TRUE]
    /\ UNCHANGED <<variant, malformed>>

\* One run of the AtomProvider function body (lines 163-206) for instance s.
\* Every run builds the atom again (line 167); useState (line 168) takes
\* atom.state on the first run only; the Proxy (line 171) closes over this
\* run's `state`.  The get trap reads atom.callbacks and atom.updaters, which
\* are the same tables in every bundle of the definition used here.
AtomProvider(s, providerProps) ==
    /\ \E made \in {createAtom(heap, restProps(providerProps))} :
       LET atomProps == restProps(providerProps)
           state == IF mounted[s] THEN hook[s] ELSE made.atom.state
       IN /\ Commit(made.heap, [hook EXCEPT ![s] = state],
                    [render EXCEPT ![s] = [scope |-> s, state |-> state]], view)
          /\ last' = [op |-> IF mounted[s] THEN "rerender" ELSE "mount",
                      scope |-> s, providerProps |-> providerProps,
                      atomProps |-> atomProps,
                      definitionCalled |-> made.called,
                      state |-> Content(made.heap, state),
                      bundleState |-> Content(made.heap, made.atom.state)]
    /\ mounted' = [mounted EXCEPT ![s] = TRUE]
    /\ UNCHANGED <<variant, malformed>>

\* React unmounts instance s: its useState cell and its render are dropped.
\* A Proxy a consumer retained stays what it was, with the `state` it closed
\* over; the instance its setState belonged to no longer exists, which the
\* view records as scope Outside.
Unmount(s) ==
    /\ mounted[s]
    /\ Commit(heap, [hook EXCEPT ![s] = 0], [render EXCEPT ![s] = NoRender],
              [c \in Consumers |->
                  IF view[c].kind = "proxy" /\ view[c].scope = s
                  THEN [view[c] EXCEPT !.scope = Outside] ELSE view[c]])
    /\ mounted' = [mounted EXCEPT ![s] = FALSE]
    /\ last' = [op |-> "unmount", scope |-> s]
    /\ UNCHANGED <<variant, malformed>>

\* The useState cell behind the setState a Proxy of instance s closed over.
cell(s) == IF s = Outside THEN 0 ELSE hook[s]

\* lines 210-212: useAtom() returns useContext(atomContext): the value of the
\* nearest enclosing provider, or the context's default (line 151: null).
useAtom(where) ==
    IF where = Outside THEN Null
    ELSE [kind |-> "proxy", scope |-> where, state |-> render[where].state]

UseAtom(c, w) ==
    /\ w \in Scopes => mounted[w]
    /\ Commit(heap, hook, render, [view EXCEPT ![c] = useAtom(w)])
    /\ last' = [op |-> "useAtom", consumer |-> c, where |-> w,
                threw |-> FALSE, returned |-> useAtom(w).kind]
    /\ UNCHANGED <<variant, malformed, mounted>>

\* obj[propName] on a plain object with the given own keys: own properties
\* first, then those inherited from Object.prototype, else undefined.
Lookup(own, propName) ==
    IF propName \in own THEN [found |-> TRUE, fn |-> propName]
    ELSE IF propName \in PrototypeNames
         THEN [found |-> TRUE, fn |-> "Object.prototype." \o propName]
         ELSE [found |-> FALSE]

\* A get trap that hands out a callback wrapped like an updater.
getWrapsCallbacks(v, propName) ==
    IF propName \in SymbolNames THEN [kind |-> "undefined"]
    ELSE IF propName = "state" THEN [kind |-> "state", ref |-> v.state]
    ELSE LET callback == Lookup(CallbackNames, propName)
             upd == Lookup(UpdaterNames, propName)
         IN IF callback.found \/ upd.found
            THEN [kind |-> "trigger", scope |-> v.scope, state |-> v.state,
                  name |-> IF callback.found THEN callback.fn ELSE upd.fn]
            ELSE [kind |-> "threw", error |-> "Error: unexpected access"]

\* A get trap that looks at the updaters before the callbacks and the state.
getUpdatersFirst(v, propName) ==
    IF propName \in SymbolNames THEN [kind |-> "undefined"]
    ELSE LET callback == Lookup(CallbackNames, propName)
             upd == Lookup(UpdaterNames, propName)
         IN IF upd.found
            THEN [kind |-> "trigger", scope |-> v.scope, state |-> v.state,
                  name |-> upd.fn]
            ELSE IF callback.found THEN [kind |-> "callback", fn |-> callback.fn]
            ELSE IF propName = "state" THEN [kind |-> "state", ref |-> v.state]
            ELSE [kind |-> "threw", error |-> "Error: unexpected access"]

\* The keys of atom.callbacks and of atom.updaters (all their values are truthy).
callbacks == CallbackNames \cup (IF malformed THEN NumberCallbacks ELSE {})
updaters == UpdaterNames \cup (IF malformed THEN StringUpdaters ELSE {})

\* lines 175-201: the Proxy's get trap, for the proxy v.  Lines 187 and 191
\* test the entry for truthiness only, not for being a function.
get(v, propName) ==
    IF propName \in SymbolNames THEN [kind |-> "undefined"]
    ELSE IF propName = "state" THEN [kind |-> "state", ref |-> v.state]
    ELSE LET callback == Lookup(callbacks, propName)
             upd == Lookup(updaters, propName)
         IN IF callback.found
            THEN IF callback.fn \in NumberCallbacks THEN [kind |-> "number", num |-> 2]
                 ELSE [kind |-> "callback", fn |-> callback.fn]
            ELSE IF upd.found
                 THEN [kind |-> "trigger", scope |-> v.scope, state |-> v.state,
                       name |-> upd.fn]
                 ELSE [kind |-> "threw", error |-> "Error: unexpected access"]

\* view[propName] as the consumer evaluates it, the result not being called;
\* a property read on null raises a TypeError.
Access(c, n) ==
    /\ view[c].kind \in {"proxy", "null"}
    /\ last' = [op |-> "get", consumer |-> c, name |-> n, on |-> view[c].kind,
                result |-> IF view[c].kind = "null" THEN "threw"
                           ELSE get(view[c], n).kind]
    /\ UNCHANGED <<variant, malformed, heap, mounted, hook, render, view>>

\* view[n](...args) for a name the get trap resolves to a callback.  What the
\* trap returned is the definition's function, so its body receives the
\* caller's arguments as they are; the bodies used here write nothing.
InvokeCallback(c, n, args) ==
    /\ view[c].kind = "proxy"
    /\ get(view[c], n).kind = "callback"
    /\ last' = [op |-> "invoke", consumer |-> c, scope |-> view[c].scope,
                name |-> n, args |-> args, fn |-> get(view[c], n).fn,
                received |-> args,
                before |-> IF view[c].scope = Outside THEN Undefined
                           ELSE Content(heap, hook[view[c].scope])]
    /\ UNCHANGED <<variant, malformed, heap, mounted, hook, render, view>>

----------------------------------------------------------------------------
(* Dispatch: the wrapper the get trap returns for an updater *)

\* immer's produce(base, recipe) with recipe = draft => update(draft, ...params)
\* (lines 193-195).  The recipe runs once on a draft of `base`.  If it raises,
\* the draft is discarded and the error propagates.  The arrow of line 193
\* returns what the updater returns: a value other than undefined replaces the
\* state when the draft was not written, and makes produce raise when it was.
\* Otherwise the result is `base` itself when nothing was written, else a new
\* object in which only the written paths are new.  `base` is never written.
produce(h, base, name, params) ==
    LET d0 == Content(h, base)
        r == update(name, d0, params)
        d1 == r.draft
        ret == returns(name, d0, params)
        metaWritten == d1.tag # d0.tag
        rootWritten == \E f \in StateFields : d1[f] # d0[f]
        m == NewAddr(h)
        h1 == IF metaWritten THEN h @@ (m :> [tag |-> d1.tag]) ELSE h
        a == NewAddr(h1)
        calls == <<[fn |-> name, draftOf |-> d0, args |-> params]>>
    IN IF r.threw
       THEN [heap |-> h, next |-> base, threw |-> TRUE, calls |-> calls]
       ELSE IF ret.type # "undefined" /\ (metaWritten \/ rootWritten)
       THEN [heap |-> h, next |-> base, threw |-> TRUE, calls |-> calls]
       ELSE IF ret.type = "object"
       THEN [heap |-> NewState(h, ret.content).heap,
             next |-> NewState(h, ret.content).addr,
             threw |-> FALSE, calls |-> calls]
       ELSE IF ~(metaWritten \/ rootWritten)
       THEN [heap |-> h, next |-> base, threw |-> FALSE, calls |-> calls]
       ELSE [heap |-> h1 @@ (a :> [counter |-> d1.counter, first |-> d1.first,
                                    last |-> d1.last, base |-> d1.base,
                                    meta |-> IF metaWritten THEN m ELSE h[base].meta]),
             next |-> a, threw |-> FALSE, calls |-> calls]

\* A wrapper that writes the state object it closed over in place.
UpdaterWrapperInPlace(h, hk, st, name, params) ==
    LET r == update(name, Content(h, st), params)
        d == r.draft
        h1 == [h EXCEPT ![st] = [counter |-> d.counter, first |-> d.first,
                                 last |-> d.last, base |-> d.base, meta |-> @.meta],
                        ![h[st].meta] = [tag |-> d.tag]]
    IN [heap |-> h1, hook |-> IF r.threw THEN hk ELSE st, threw |-> r.threw,
        calls |-> <<[fn |-> name, draftOf |-> Content(h, st), args |-> params]>>]

\* A wrapper that commits whatever the updater left behind, also when it raised.
UpdaterWrapperCommitOnThrow(h, hk, st, name, params) ==
    LET r == update(name, Content(h, st), params)
        n == NewState(h, r.draft)
    IN [heap |-> n.heap, hook |-> n.addr, threw |-> r.threw,
        calls |-> <<[fn |-> name, draftOf |-> Content(h, st), args |-> params]>>]

\* lines 192-197: (...params) => { const nextState = produce(state, draft =>
\* update(draft, ...params)); setState(nextState) }
\* h: heap, hk: the useState cell now, st: the `state` the wrapper closed over.
\* Returns the heap, the useState cell afterwards and whether the call raised.
UpdaterWrapper(h, hk, st, name, params) ==
    LET p == produce(h, st, name, params)
    IN IF p.threw
       THEN [heap |-> h, hook |-> hk, threw |-> TRUE, calls |-> p.calls]
       ELSE [heap |-> p.heap, hook |-> p.next, threw |-> FALSE, calls |-> p.calls]

\* view[n](...params) for a name the get trap resolves to an updater.  The
\* setState of a component that has been unmounted does nothing.
Dispatch(c, n, params) ==
    /\ view[c].kind = "proxy"
    /\ get(view[c], n).kind = "trigger"
    /\ params \in ParamsOf(n)
    /\ update(n, Content(heap, view[c].state), params).draft.counter <= MaxCounter
    /\ \E r \in {UpdaterWrapper(heap, cell(view[c].scope), view[c].state,
                                  get(view[c], n).name, params)} :
       LET t == get(view[c], n)
           s == t.scope
       IN /\ Commit(r.heap, [x \in Scopes |-> IF x = s THEN r.hook ELSE hook[x]],
                    render, view)
          /\ last' = [op |-> "dispatch", scope |-> s, consumer |-> c, name |-> n,
                      params |-> params, threw |-> r.threw, calls |-> r.calls,
                      current |-> IF s = Outside THEN Undefined
                                  ELSE Content(heap, hook[s]),
                      fresh |-> (t.state = cell(s)),
                      kept |-> (r.hook = cell(s)),
                      after |-> IF s = Outside THEN Undefined
                                ELSE Content(r.heap, r.hook),
                      nestedShared |-> (s # Outside
                                        /\ r.heap[r.hook].meta = heap[cell(s)].meta),
                      oldIntact |-> (\A a \in DOMAIN heap : r.heap[a] = heap[a])]
    /\ UNCHANGED <<variant, malformed, mounted>>

----------------------------------------------------------------------------
(* Reading through view.state *)

\* obj[n] for the state object at address a (line 180 hands out the raw state).
StateMember(h, a, n) ==
    IF n \in {"counter", "base"} THEN [type |-> "number", num |-> h[a][n]]
    ELSE IF n \in {"first", "last"} THEN [type |-> "string", str |-> h[a][n]]
    ELSE IF n \in PrototypeNames THEN [type |-> "function", fn |-> "Object.prototype." \o n]
    ELSE Undefined

\* view.state[n]
ReadState(c, n) ==
    /\ view[c].kind = "proxy"
    /\ get(view[c], "state").kind = "state"
    /\ last' = [op |-> "read", consumer |-> c, scope |-> view[c].scope, name |-> n,
                value |-> StateMember(heap, get(view[c], "state").ref, n)]
    /\ UNCHANGED <<variant, malformed, heap, mounted, hook, render, view>>

\* view.state[n](...extra): calling a member that is no function raises.
CallState(c, n, extra) ==
    /\ view[c].kind = "proxy"
    /\ get(view[c], "state").kind = "state"
    /\ LET m == StateMember(heap, get(view[c], "state").ref, n)
       IN last' = [op |-> "callState", consumer |-> c, scope |-> view[c].scope,
                   name |-> n, extra |-> extra,
                   threw |-> (m.type # "function"),
                   value |-> IF m.type = "function"
                             THEN [type |-> "string", str |-> "[object Object]"]
                             ELSE Undefined]
    /\ UNCHANGED <<variant, malformed, heap, mounted, hook, render, view>>

----------------------------------------------------------------------------
(* One provider instance, the whole accessor surface *)

Extras == {<<1, 2, 3>>}
CallbackArgs == {<< >>, <<"a", 1>>}
ReadNames == {"counter"} \cup SelectorNames

Mount == \E p \in ProviderProps : ~mounted[1] /\ AtomProvider(1, p)
Rerender == \E p \in ProviderProps : mounted[1] /\ AtomProvider(1, p)
Use == \E c \in Consumers, w \in {1, Outside} : UseAtom(c, w)
Property == \E c \in Consumers, n \in PropNames \cup SymbolNames : Access(c, n)
Call == \E c \in Consumers, n \in UpdaterNames \ WriteNames :
            \E params \in ParamsOf(n) : Dispatch(c, n, params)
Read == \E c \in Consumers, n \in ReadNames : ReadState(c, n)
Query == \E c \in Consumers, n \in SelectorNames, extra \in Extras :
             CallState(c, n, extra)
Invoke == \E c \in Consumers, n \in CallbackNames \cup PrototypeNames,
             args \in CallbackArgs : InvokeCallback(c, n, args)

Next == Mount \/ Rerender \/ Use \/ Property \/ Call \/ Read \/ Query \/ Invoke

Spec == Init /\ [][Next]_vars

(* Two provider instances of the same definition *)

PlainProps == [start |-> 0, children |-> "tree"]

MountAny == \E s \in Scopes : ~mounted[s] /\ AtomProvider(s, PlainProps)
RerenderAny == \E s \in Scopes : mounted[s] /\ AtomProvider(s, PlainProps)
UseAny == \E c \in Consumers, w \in Scopes : UseAtom(c, w)

CallAny == \E c \in Consumers, n \in {"increment", "reset", "failing"} :
               \E params \in ParamsOf(n) \ {<<5>>} : Dispatch(c, n, params)

NextPair == MountAny \/ RerenderAny \/ UseAny \/ CallAny

SpecPair == Init /\ [][NextPair]_vars

(* The host's scheduling *)

\* setState (line 196) with a value that is not the one the latest render saw
\* makes React render the component again; React does not leave such an
\* update pending forever.
Stale(s) == mounted[s] /\ hook[s] # render[s].state
Refresh == Stale(1) /\ AtomProvider(1, PlainProps)

MountOne == ~mounted[1] /\ AtomProvider(1, PlainProps)
RerenderOne == mounted[1] /\ AtomProvider(1, PlainProps)
UseOne == \E c \in Consumers : UseAtom(c, 1)
CallOne == \E c \in Consumers, n \in {"increment", "reset"} :
               \E params \in ParamsOf(n) : Dispatch(c, n, params)

NextLive == MountOne \/ RerenderOne \/ UseOne \/ CallOne

SpecLive == Init /\ [][NextLive]_vars /\ WF_vars(Refresh)

(* Updaters that write nested state or return a value *)

CallWrite == \E c \in Consumers, n \in {"increment"} \cup WriteNames :
                 \E params \in ParamsOf(n) : Dispatch(c, n, params)

NextWrite == MountOne \/ RerenderOne \/ UseOne \/ CallWrite

SpecWrite == Init /\ [][NextWrite]_vars

(* A definition with entries that are no functions *)

InitMalformed ==
    /\ malformed = TRUE
    /\ variant \in {"object", "function"}
    /\ heap = IF variant = "object" THEN DefHeap.heap ELSE << >>
    /\ mounted = [s \in Scopes |-> FALSE]
    /\ hook = [s \in Scopes |-> 0]
    /\ render = [s \in Scopes |-> NoRender]
    /\ view = [c \in Consumers |-> NoView]
    /\ last = [op |-> "init"]

PropertyMalformed ==
    \E c \in Consumers, n \in {"log", "increment"} \cup NumberCallbacks \cup StringUpdaters :
        Access(c, n)
CallMalformed ==
    \E c \in Consumers, n \in {"increment"} \cup StringUpdaters :
        \E params \in ParamsOf(n) : Dispatch(c, n, params)

NextMalformed ==
    MountOne \/ RerenderOne \/ UseOne \/ PropertyMalformed \/ CallMalformed

SpecMalformed == InitMalformed /\ [][NextMalformed]_vars

(* Teardown: a consumer keeps its view beyond the provider's unmount *)

Teardown == Unmount(1)

NextTeardown == MountOne \/ RerenderOne \/ UseOne \/ CallOne \/ Property \/ Read \/ Teardown

SpecTeardown == Init /\ [][NextTeardown]_vars

----------------------------------------------------------------------------
(* Properties *)

Committed(s) == Content(heap, hook[s])

\* C1: every mutation-trigger call that completes without raising commits the
\* named updater applied, with the caller's arguments, to the state that was
\* committed just before the call, whichever view the trigger came from and
\* whether or not a re-render happened in between.  By induction over the call
\* sequence this is the claim: the committed state is the updaters applied in
\* call order to the initial state, no update lost (0, increment(5),
\* increment(3) gives 8).
C1_UpdatesApplyInCallOrder ==
    (last.op = "dispatch" /\ ~last.threw)
        => /\ last.after = update(last.name, last.current, last.params).draft
           /\ Committed(last.scope) = last.after

\* C2: when the updater raises, also after writing fields of the draft, the
\* useState cell still holds the very state it held before the call, nothing
\* of the draft is committed, the updater ran once (no retry) and the error
\* leaves the trigger (it is not swallowed).
C2_FailedDispatchKeepsState ==
    (last.op = "dispatch"
        /\ update(last.name, last.calls[1].draftOf, last.params).threw)
        => /\ last.threw
           /\ last.kept
           /\ last.after = last.current
           /\ Committed(last.scope) = last.current
           /\ Len(last.calls) = 1

C2_Witness ==
    /\ last.op = "dispatch"
    /\ last.name = "failing"
    /\ last.threw
    /\ update(last.name, last.calls[1].draftOf, last.params).draft
           # last.calls[1].draftOf
    /\ Committed(last.scope) = last.current

\* What can be observed of scope t: the committed state, the state its latest
\* render hands out, and the state read through the views held on it.
NotThere == [absent |-> TRUE]
Observable(t) ==
    [committed |-> IF mounted[t] THEN Committed(t) ELSE NotThere,
     rendered |-> IF mounted[t] THEN Content(heap, render[t].state) ELSE NotThere,
     held |-> [c \in Consumers |->
                  IF view[c].kind = "proxy" /\ view[c].scope = t
                  THEN Content(heap, view[c].state) ELSE NotThere],
     definition |-> IF variant = "object" THEN Content(heap, DefHeap.addr)
                    ELSE NotThere]

\* C3: a dispatch on one provider instance changes nothing that can be observed
\* of another instance of the same definition, static or parameterized, also
\* when both started from the same definition state object.
C3_ScopesAreIsolated ==
    [][last'.op = "dispatch"
          => \A t \in Scopes \ {last'.scope} : Observable(t)' = Observable(t)]_vars

C3_Witness ==
    /\ variant = "object"
    /\ mounted[1] /\ mounted[2]
    /\ last.op = "dispatch" /\ last.scope = 1 /\ ~last.threw
    /\ last.after # last.current
    /\ Committed(2) = Content(heap, DefHeap.addr)
    /\ Committed(1) # Committed(2)

\* C4: a trigger called with arguments invokes its updater exactly once, with a
\* draft of the state current at the time of the call followed by the caller's
\* arguments, in order and unchanged.
C4_UpdaterGetsCurrentDraftAndArgs ==
    last.op = "dispatch"
        => last.calls = <<[fn |-> last.name, draftOf |-> last.current,
                           args |-> last.params]>>

\* C5: view.state.n for a selector n of at most one argument is
\* selector(current state), like a plain field.
C5_SelectorReadAsField ==
    (last.op = "read" /\ last.name = "fullName")
        => last.value = [type |-> "string",
                         str |-> selector("fullName", Committed(last.scope), << >>)]

\* C6: view.state.n for a selector n of more than one argument is a function
\* that evaluates selector(current state, ...extra) on each call.
C6_ParameterizedSelectorIsCallable ==
    (last.op = "callState" /\ last.name = "sum")
        => /\ ~last.threw
           /\ last.value = [type |-> "number",
                            num |-> selector("sum", Committed(last.scope), last.extra)]

\* C7: useAtom() with no enclosing provider fails at the call and never returns
\* a default such as null.
C7_UnscopedAccessRaises ==
    (last.op = "useAtom" /\ last.where = Outside)
        => (last.threw /\ last.returned # "null")

\* C8: on an Accessor View, a string name other than "state" that is neither a
\* declared callback nor a declared updater raises at the property access and
\* yields no function.
C8_UnknownMemberRaises ==
    (last.op = "get" /\ last.on = "proxy"
        /\ last.name \notin SymbolNames \cup {"state"} \cup CallbackNames \cup UpdaterNames)
        => last.result = "threw"

\* C9: the definition function of a parameterized definition runs once per
\* mount; no re-render of the provider runs it again.
C9_DefinitionRunsOncePerMount ==
    last.op = "rerender" => ~last.definitionCalled

\* C10: the first state of a scope is the initial-state override given to the
\* provider when there is one, else the definition's state; the override is
\* not forwarded as a scope-construction input.
C10_InitialStateOverride ==
    last.op = "mount"
        => IF "initialState" \in DOMAIN last.providerProps
           THEN /\ last.state = last.providerProps.initialState
                /\ "initialState" \notin DOMAIN last.atomProps
           ELSE last.state = last.bundleState

\* C11: view[n] for a declared callback n is that callback itself: calling it
\* runs the callback's body, never an updater wrapper, with exactly the
\* caller's arguments (nothing prepended), and the scope's committed state is
\* the same before and after.
C11_CallbackPassedThrough ==
    (last.op \in {"invoke", "dispatch"} /\ last.name \in CallbackNames)
        => /\ last.op = "invoke"
           /\ last.fn = last.name
           /\ last.received = last.args
           /\ Committed(last.scope) = last.before

C11_Witness ==
    /\ last.op = "invoke"
    /\ last.name \in CallbackNames
    /\ last.args = <<"a", 1>>
    /\ last.received = <<"a", 1>>
    /\ Committed(last.scope).counter > 0

\* C12: the get trap resolves "state" to the state also when a callback is
\* declared under that name, resolves a name declared as callback and as
\* updater to the callback, and no call through the view dispatches the
\* updater of such a name.
C12_ResolutionOrder ==
    /\ (last.op = "get" /\ last.on = "proxy" /\ last.name = "state")
           => last.result = "state"
    /\ (last.op = "get" /\ last.on = "proxy"
           /\ last.name \in (CallbackNames \cap UpdaterNames) \ {"state"})
           => last.result = "callback"
    /\ last.op = "dispatch" => last.name \notin CallbackNames

C12_Witness ==
    /\ last.op = "get"
    /\ last.on = "proxy"
    /\ last.name = "both"
    /\ last.result = "callback"

\* C13: once a dispatch has committed a state the latest render did not see,
\* the provider eventually renders with the committed state; and a view that
\* useAtom hands out while the latest render has seen the committed state
\* reads exactly the committed state from view.state, no older one.
C13_ViewsFollowCommits ==
    /\ Stale(1) ~> ~Stale(1)
    /\ []((last.op = "useAtom" /\ last.where = 1 /\ ~Stale(1))
            => /\ view[last.consumer].state = hook[1]
               /\ Content(heap, get(view[last.consumer], "state").ref)
                    = Committed(1))

C13_Witness ==
    /\ last.op = "useAtom"
    /\ last.where = 1
    /\ ~Stale(1)
    /\ Committed(1).counter = 6
    /\ Content(heap, get(view[last.consumer], "state").ref).counter = 6

\* C14: on a view retained from an unmounted provider, reading view.state[n]
\* yields an error and not a value, obtaining a member raises, and calling a
\* mutation trigger raises.
C14_RetainedViewAccessRaises ==
    /\ (last.op = "read" /\ last.scope = Outside) => last.value.type = "error"
    /\ (last.op = "get" /\ view[last.consumer].kind = "proxy"
           /\ view[last.consumer].scope = Outside) => last.result = "threw"
    /\ (last.op = "dispatch" /\ last.scope = Outside) => last.threw

\* C15: a definition that holds a non-function entry in callbacks or updaters
\* is rejected when the atom is constructed: no provider of it ever mounts, the
\* view never hands the non-function value to a consumer, and no error is left
\* for the first call of the member.
C15_MalformedDefinitionRejected ==
    /\ malformed => \A s \in Scopes : ~mounted[s]
    /\ last.op = "get" => last.result # "number"
    /\ last.op = "dispatch" => last.name \notin StringUpdaters

\* C16: what an updater returns has no effect: a dispatch whose updater
\* returns a value other than undefined does not raise and commits exactly the
\* writes the updater made to its draft (the unchanged state if it wrote
\* nothing).
C16_UpdaterReturnIgnored ==
    (last.op = "dispatch"
        /\ returns(last.name, last.calls[1].draftOf, last.params).type # "undefined")
        => /\ ~last.threw
           /\ last.after = update(last.name, last.calls[1].draftOf, last.params).draft

\* C17: after a dispatch that completes, the stored state differs from the
\* state stored before the dispatch on no path the updater did not write, the
\* nested object is shared with the previous state unless the updater wrote
\* in it, and no object of the previous state was written.
C17_CopyOnWriteSharing ==
    (last.op = "dispatch" /\ ~last.threw)
        => /\ \A f \in (StateFields \cup {"tag"}) \ writes(last.name) :
                  last.after[f] = last.current[f]
           /\ "tag" \notin writes(last.name) => last.nestedShared
           /\ last.oldIntact

\* C18: the committed state of a mounted scope differs between two successive
\* states only if the step is a mutation-trigger call on that scope that
\* completed; reads of view.state, member accesses (failed ones included),
\* callback invocations, useAtom calls and re-renders leave it as it was.
C18_OnlyDispatchChangesState ==
    [][\A s \in Scopes :
          (mounted[s] /\ mounted'[s] /\ Committed(s)' # Committed(s))
              => (last'.op = "dispatch" /\ last'.scope = s /\ ~last'.threw)]_vars

C18_Witness ==
    /\ last.op = "get"
    /\ last.on = "proxy"
    /\ last.result = "threw"
    /\ Committed(1).counter = 5

\* C19: a re-render of a mounted provider leaves the committed state what it
\* was, whatever scope-construction inputs it is given and whatever state the
\* bundle built by that render carries; the state useState hands to the render
\* is the committed one.
C19_RerenderKeepsState ==
    [][last'.op = "rerender"
          => \A s \in Scopes :
                 last'.scope = s
                     => /\ Committed(s)' = Committed(s)
                        /\ last'.state = Committed(s)]_vars

C19_Witness ==
    /\ variant = "function"
    /\ last.op = "rerender"
    /\ last.atomProps.start = 3
    /\ last.definitionCalled
    /\ last.bundleState.counter = 3
    /\ last.state.counter = 8
    /\ Committed(last.scope).counter = 8

====
